---- MODULE Spec2Model ----
(***************************************************************************)
(* A model of the `mode` crate (andrewtc/mode): the Automaton container of *)
(* src/src/automaton.rs, the swap/transition protocol of src/src/mode.rs,  *)
(* and the deferred-decision wrapper layer of src/src/mode_wrapper.rs and  *)
(* src/src/transition.rs.                                                  *)
(*                                                                         *)
(* An Option<T> is modelled as a sequence of length at most one: None is   *)
(* <<>> and Some(x) is <<x>>.  A panic is modelled as unwinding the whole  *)
(* call stack to the caller's top level (as under catch_unwind, or as seen *)
(* by destructors that run during unwinding): the objects keep the fields  *)
(* they had at the moment of the panic.                                    *)
(***************************************************************************)
EXTENDS Integers, Sequences, FiniteSets, TLC

\* ------------------------------------------------------------------ bounds

\* Largest value of ModeWithDefault::count the callers drive the automaton to.
MaxCount == 2

\* Largest hours_worked / hours_rested the callers drive the Activity modes to.
MaxHours == 9

\* Largest calories_consumed the callers drive Eating to.
MaxCalories == 500

\* The length up to which a run of consecutive |mode| mode calls is counted.
MaxStay == 2

\* The number of heap addresses the allocator of the pointer modes has.
MaxAddr == 2

\* Largest counter and target of the modes a caller of the counter's modes
\* constructs.
MaxCounter == 12

\* Largest number of ones on the tape the Turing machine is started with.
MaxOnes == 5

\* The calls of next_with_output its loop is followed for.
MaxSteps == 150

\* How far from the head the tapes of a free caller hold arbitrary bits.
MaxSpan == 3

\* ----------------------------------------------------------------- Option

None == <<>>

Some(x) == <<x>>

IsSome(o) == Len(o) = 1

IsNone(o) == Len(o) = 0

\* Option::unwrap / Option::expect on a Some value.
Unwrap(o) == o[1]

\* ------------------------------------------------------ families and modes

\* The family F of the automaton under study and a second, unrelated family.
Families == {"SomeFamily", "OtherFamily"}

\* The automaton is an Automaton<SomeFamily>.
F == "SomeFamily"

Names == {"A", "B", "C"}

\* Every mode value: its Family (the associated type of mode.rs:166), the enum
\* variant (State::A/B/C) and the count payload (ModeWithDefault::count).
Modes == [family : Families, name : Names, count : 0..MaxCount]

\* F::Mode: the modes whose associated Family is F (family.rs:90).
FamilyMode == {m \in Modes : m.family = F}

\* Default::default() of the mode type: ModeWithDefault { count: 0 }.
DefaultMode == [family |-> F, name |-> "A", count |-> 0]

\* The panic messages of the two expect() calls.
ERR_SWAP == "Cannot swap out current Mode while another swap is taking place!"

ERR_BORROW == "Cannot borrow current Mode because another swap is already taking place!"

\* The panic of Option::unwrap() on None in the wrapper layer (the message of
\* the standard library, without its quotation marks).
ERR_UNWRAP == "called Option::unwrap() on a None value"

\* The unit value () returned by next().
Unit == "()"


\* ------------------------------------------------------------------ state

VARIABLES
    mode,       \* Automaton::mode : Option<F::Mode>, the slot
    pc,         \* "idle", or "in_fn" while a transition_fn is executing
    held,       \* the mode moved into the executing transition_fn (an Option)
    call,       \* the most recent call on the automaton and how it ended
    result,     \* the value the last next/next_with_result returned (an Option)
    observed,   \* what the last borrow returned a reference to (an Option)
    stayBase,   \* the current run of |mode| mode calls: Base before it, length
    constructed, \* the mode the automaton was constructed with, while no next
                \* and no write through a &mut has followed (an Option)
    wrapper,    \* the ModeWrapper its holder stores: [mode : Option<T>]
    returned,   \* the Option<Box<wrapper>> perform_transitions handed back
    wpc,        \* "idle", or "invoking" while a Transition closure executes
    transition, \* the Transition that get_transition returned (an Option)
    inflight,   \* the mode moved into the executing Transition (an Option)
    wcall,      \* the most recent call on a wrapper and how it ended
    wobserved,  \* what the last borrow on a wrapper returned (an Option)
    pmode,      \* the slot of an Automaton whose F::Mode is a pointer
    heap,       \* the allocations behind the pointers: address -> Option
    pcall,      \* the most recent call on that automaton and how it ended
    program,    \* the loop a caller runs on the automaton
    lpc,        \* the statement of that loop that runs next: "test", "body", "done"
    calls,      \* the calls of next the loop has made
    cmode,      \* the slot of the automaton of examples/counter.rs
    cpc,        \* the statement of its main that runs next
    creport,    \* the bool the last Automaton::transition returned (an Option)
    rounds,     \* the rounds (update, then transition) main has completed
    cout,       \* the result main prints at the end (an Option)
    cop,        \* the last operation on that automaton: "update", "transition"
    cprev,      \* the slot as the last operation on that automaton found it
    tmode,      \* the slot of the automaton of examples/turing.rs
    tones,      \* the number of ones on the tape it was started with
    tpc,        \* "loop" while main's loop runs, then "done"
    tsteps,     \* the calls of next_with_output made
    tout,       \* the bool the last of them returned (an Option)
    deferred,   \* the wrapper that person of the example of lib.rs stores
    inline,     \* the slot of person of examples/enum.rs (an Option)
    boxed,      \* the slot of person of examples/activity.rs: a Box (an Option)
    bheap,      \* the heap that Box points into
    age,        \* _age of the three main loops
    apc         \* where the loops are: "test", "update", "transition", "done"

autoVars == <<mode, pc, held, call, result, observed, stayBase, constructed>>

wrapVars == <<wrapper, returned, wpc, transition, inflight, wcall, wobserved>>

pointerVars == <<pmode, heap, pcall>>

loopVars == <<program, lpc, calls>>

counterVars == <<cmode, cpc, creport, rounds, cout, cop, cprev>>

\* The state outside the Automaton, outside the wrapper layer, outside the
\* automaton with pointer storage, and outside the counter.
turingVars == <<tmode, tones, tpc, tsteps, tout>>

activityVars == <<deferred, inline, boxed, bheap, age, apc>>

nonAutoVars == <<wrapVars, pointerVars, loopVars, counterVars, turingVars, activityVars>>

nonWrapVars == <<autoVars, pointerVars, loopVars, counterVars, turingVars, activityVars>>

nonPointerVars == <<autoVars, wrapVars, loopVars, counterVars, turingVars, activityVars>>

nonCounterVars == <<autoVars, wrapVars, pointerVars, loopVars, turingVars, activityVars>>

nonTuringVars == <<autoVars, wrapVars, pointerVars, loopVars, counterVars, activityVars>>

nonActivityVars ==
    <<autoVars, wrapVars, pointerVars, loopVars, counterVars, turingVars>>

vars == <<autoVars, wrapVars, pointerVars, loopVars, counterVars, turingVars, activityVars>>

\* ----------------------------------------------- caller-supplied closures

\* The bodies of the closures FnOnce(F::Mode) -> F::Mode that the callers of
\* the crate pass to Automaton::next.
ApplyFn(f, m) ==
    CASE f = "identity"     -> m
      [] f = "count_up"     -> [m EXCEPT !.count = @ + 1]
      [] f = "state_next"   -> [m EXCEPT !.name = CASE @ = "A" -> "B"
                                                    [] @ = "B" -> "C"
                                                    [] OTHER   -> "C"]
      [] f = "other_family" -> [m EXCEPT !.family = "OtherFamily"]
      [] OTHER              -> m

\* Closures that return a mode: the first three are the ones of the crate's
\* documentation; "other_family" builds a mode of a Family other than F.
ReturningFns == {"identity", "count_up", "state_next", "other_family"}

\* Closures that never return: one that panics, and two that call back into
\* the automaton they are transitioning.
DivergingFns == {"panics", "reenters_next", "reenters_borrow"}

\* A closure handed to next_with_result: `kind` tells whether it is the
\* caller's own FnOnce(F::Mode) -> (F::Mode, R) or the one next() builds.
Closure(kind, f) == [kind |-> kind, fn |-> f]

\* The pair a closure FnOnce(F::Mode) -> (F::Mode, R) returns for mode m.
\* "with_result" closures are State::next of the documentation of
\* next_with_result, which return (successor, self).
\* (Variant: the closure is applied twice to the mode.)
TransitionFnTwiceMutant(c, m) ==
    <<ApplyFn(c.fn, ApplyFn(c.fn, m)), IF c.kind = "with_result" THEN m ELSE Unit>>

TransitionFn(c, m) ==
    IF c.kind = "with_result"
        THEN <<ApplyFn(c.fn, m), m>>
        ELSE <<ApplyFn(c.fn, m), Unit>>

\* The closure Automaton::next builds around transition_fn:
\* |mode| (transition_fn(mode), ()).
\* (Variant: next hands the mode it was given back as the result.)
NextClosureMutant(f) == Closure("with_result", f)

NextClosure(f) == Closure("unit", f)

\* The bound T : FnOnce(F::Mode) -> (F::Mode, R), with F::Mode : Mode<Family = F>:
\* the compiler accepts a closure only if every mode it returns is an F::Mode.
\* (Variant without the bound: any closure is accepted.)
WellTypedMutant(c) == TRUE

WellTyped(c) ==
    \A m \in FamilyMode : TransitionFn(c, m)[1].family = F

\* The closures a caller may pass when the current mode is m: count_up is
\* driven no further than MaxCount.
Callable(c, m) ==
    /\ c.fn \in ReturningFns \cup DivergingFns
    /\ c.fn = "count_up" => m.count < MaxCount
    /\ c.kind = "with_result" => c.fn = "state_next"

Closures == {Closure(k, f) : k \in {"unit", "with_result"},
                             f \in ReturningFns \cup DivergingFns}

\* ------------------------------------------------------- Automaton (new API)

\* Borrow<F::Base> for F::Mode with in-place storage (Base = Mode): the
\* reference to the stored value itself.
Borrow(m) == m

\* What a caller does through the &mut F::Base it got: nothing, or update().
BaseWrite(w, b) ==
    IF w = "update" THEN [b EXCEPT !.count = @ + 1] ELSE b

Writes == {"none", "update"}

\* Option::take() on the slot: what it leaves behind.
\* (Variant: as_ref().cloned() in place of take() leaves the slot full.)
SlotAfterTakeMutant(slot) == slot

SlotAfterTake(slot) == None

\* automaton.mode = Some(next_mode)
\* (Variants: the assignment is missing; a default mode is installed.)
InstallMutant(old, next_mode) == old

InstallDefaultMutant(old, next_mode) == Some(DefaultMode)

Install(old, next_mode) == Some(next_mode)

\* A call on the automaton: the operation, the closure it was given, the slot
\* at call time, whether it was made from inside an executing transition_fn,
\* whether it invoked its transition_fn, and how it ended.
CallRecord(op, c, pre, invoked, outcome, err) ==
    [op |-> op, fn |-> c, pre |-> pre, reentrant |-> (pc = "in_fn"),
     invoked |-> invoked, outcome |-> outcome, err |-> err]

NoClosure == Closure("none", "none")

\* A panic unwinds every frame of the automaton's callers: the mode moved into
\* an executing transition_fn is dropped, the slot keeps what it held.
Panic(op, c, err) ==
    /\ call' = CallRecord(op, c, mode, FALSE, "panicked", err)
    /\ pc' = "idle"
    /\ held' = None
    /\ result' = None
    /\ observed' = None
    /\ stayBase' = None
    /\ UNCHANGED <<mode, constructed>>

\* The run of consecutive |current_mode| current_mode calls after one more of
\* them: the Base state before the first, and how many (counted to MaxStay).
StayRun(run, base) ==
    IF IsSome(run)
        THEN [base |-> Unwrap(run).base,
              calls |-> IF Unwrap(run).calls < MaxStay
                           THEN Unwrap(run).calls + 1 ELSE MaxStay]
        ELSE [base |-> base, calls |-> 1]

\* Self { mode : Some(mode) } of with_mode(mode).
\* (Variant: the argument is dropped and a default mode stored.)
WithModeMutant(m) == Some(DefaultMode)

WithMode(m) == Some(m)

\* Self { mode : Some(Default::default()) } of new().
\* (Variant: new() stores a mode other than the default one.)
NewSlotMutant == Some([DefaultMode EXCEPT !.name = "B"])

NewSlot == Some(DefaultMode)

\* A constructor returns a fresh automaton with the given slot; `m` is the
\* mode its caller chose (for new(), the default mode).
Construct(op, slot, m) ==
    /\ pc = "idle"
    /\ mode' = slot
    /\ held' = None
    /\ pc' = "idle"
    /\ call' = CallRecord(op, NoClosure, None, FALSE, "returned", "")
    /\ result' = None
    /\ observed' = None
    /\ stayBase' = None
    /\ constructed' = Some(m)

\* Automaton::with_mode(mode), and Family::automaton_with_mode(mode), which
\* is Automaton::with_mode(mode).
WithModeOps == {"with_mode", "automaton_with_mode"}

with_mode ==
    /\ \E op \in WithModeOps, m \in FamilyMode : Construct(op, WithMode(m), m)
    /\ UNCHANGED nonAutoVars

\* Automaton::new(); Default::default(), which is Self::new(); and
\* Family::automaton(), which is Automaton::new().
NewOps == {"new", "default", "automaton"}

new ==
    /\ \E op \in NewOps : Construct(op, NewSlot, DefaultMode)
    /\ UNCHANGED nonAutoVars

\* The first half of next_with_result: automaton.mode.take().expect(..) and
\* the call of transition_fn on the mode taken out.  It may be called at the
\* top level (pc = "idle") or from inside an executing transition_fn.
\* expect(..) on the None that take() returned from an empty slot.
\* (Variant: `if let Some(mode) = take()` returns quietly on an empty slot.)
OnEmptySlotMutant(op, c) ==
    /\ call' = CallRecord(op, c, mode, FALSE, "returned", "")
    /\ result' = Some(Unit)
    /\ observed' = None
    /\ stayBase' = None
    /\ UNCHANGED <<mode, pc, held, constructed>>

OnEmptySlot(op, c) == Panic(op, c, ERR_SWAP)

NextCall(op, c) ==
    IF IsNone(mode)
        THEN OnEmptySlot(op, c)
        ELSE /\ held' = Some(Unwrap(mode))
             /\ mode' = SlotAfterTake(mode)
             /\ pc' = "in_fn"
             /\ call' = CallRecord(op, c, mode, TRUE, "running", "")
             /\ result' = None
             /\ observed' = None
             /\ stayBase' = IF c.fn = "identity"
                               THEN Some(StayRun(stayBase, Borrow(Unwrap(mode))))
                               ELSE None
             /\ constructed' = None

\* The second half of next_with_result: transition_fn returns
\* (next_mode, result); the mode is installed and the result returned.
NextReturn ==
    /\ pc = "in_fn"
    /\ call.fn.fn \in ReturningFns
    /\ LET out == TransitionFn(call.fn, Unwrap(held))
       IN  /\ mode' = Install(mode, out[1])
           /\ result' = Some(out[2])
    /\ held' = None
    /\ pc' = "idle"
    /\ call' = [call EXCEPT !.outcome = "returned"]
    /\ UNCHANGED <<observed, stayBase, constructed>>
    /\ UNCHANGED nonAutoVars

\* Automaton::next_with_result(&mut automaton, transition_fn), called by the
\* owner of the automaton.
next_with_result ==
    /\ pc = "idle"
    /\ \E c \in Closures :
        /\ c.kind = "with_result"
        /\ WellTyped(c)
        /\ IsSome(mode) => Callable(c, Unwrap(mode))
        /\ NextCall("next_with_result", c)
    /\ UNCHANGED nonAutoVars

\* Automaton::next_with_result(&mut automaton, |mode| (f(mode), ())): the
\* owner passes next_with_result a closure that pairs the mode f returns with
\* the unit value.
next_with_unit_result ==
    /\ pc = "idle"
    /\ \E f \in ReturningFns \cup DivergingFns :
        /\ WellTyped(Closure("unit", f))
        /\ IsSome(mode) => Callable(Closure("unit", f), Unwrap(mode))
        /\ NextCall("next_with_result", Closure("unit", f))
    /\ UNCHANGED nonAutoVars

\* Automaton::next(&mut automaton, transition_fn):
\* next_with_result(automaton, |mode| (transition_fn(mode), ())).
next ==
    /\ pc = "idle"
    /\ \E f \in ReturningFns \cup DivergingFns :
        /\ WellTyped(NextClosure(f))
        /\ IsSome(mode) => Callable(NextClosure(f), Unwrap(mode))
        /\ NextCall("next", NextClosure(f))
    /\ UNCHANGED nonAutoVars

\* The executing transition_fn panics.
\* (Variant: the panic is swallowed and the call returns normally.)
PanicSwallowedMutant ==
    /\ pc = "in_fn"
    /\ call.fn.fn = "panics"
    /\ call' = [call EXCEPT !.outcome = "returned"]
    /\ pc' = "idle"
    /\ held' = None
    /\ result' = Some(Unit)
    /\ observed' = None
    /\ stayBase' = None
    /\ UNCHANGED <<mode, constructed>>
    /\ UNCHANGED nonAutoVars

\* (Variant: the unwinding puts the mode that was taken out back in the slot.)
PanicRestoresMutant ==
    /\ pc = "in_fn"
    /\ call.fn.fn = "panics"
    /\ call' = [call EXCEPT !.outcome = "panicked", !.err = "transition_fn panicked"]
    /\ pc' = "idle"
    /\ mode' = held
    /\ held' = None
    /\ result' = None
    /\ observed' = None
    /\ stayBase' = None
    /\ UNCHANGED constructed
    /\ UNCHANGED nonAutoVars

transition_fn_panics ==
    /\ pc = "in_fn"
    /\ call.fn.fn = "panics"
    /\ call' = [call EXCEPT !.outcome = "panicked", !.err = "transition_fn panicked"]
    /\ pc' = "idle"
    /\ held' = None
    /\ result' = None
    /\ observed' = None
    /\ stayBase' = None
    /\ UNCHANGED <<mode, constructed>>
    /\ UNCHANGED nonAutoVars

\* The executing transition_fn calls next on the automaton it was called by.
reenter_next ==
    /\ pc = "in_fn"
    /\ call.fn.fn = "reenters_next"
    /\ NextCall("next", NextClosure("identity"))
    /\ UNCHANGED nonAutoVars

\* borrow_mode(): self.mode.as_ref().expect(..).borrow().  Deref::deref,
\* AsRef::as_ref, Debug::fmt and Display::fmt are calls of borrow_mode.
\* (Variant: on an empty slot a reference to the mode taken out is returned.)
BorrowModeMutant(op) ==
    /\ observed' = IF IsNone(mode) THEN held ELSE Some(Borrow(Unwrap(mode)))
    /\ call' = CallRecord(op, NoClosure, mode, FALSE, "returned", "")
    /\ result' = None
    /\ UNCHANGED <<mode, pc, held, stayBase, constructed>>

\* (Variant: take() in place of as_ref() moves the mode out of the slot.)
BorrowModeTakeMutant(op) ==
    IF IsNone(mode)
        THEN Panic(op, NoClosure, ERR_BORROW)
        ELSE /\ observed' = Some(Borrow(Unwrap(mode)))
             /\ mode' = None
             /\ call' = CallRecord(op, NoClosure, mode, FALSE, "returned", "")
             /\ result' = None
             /\ UNCHANGED <<pc, held, stayBase, constructed>>

BorrowMode(op) ==
    IF IsNone(mode)
        THEN Panic(op, NoClosure, ERR_BORROW)
        ELSE /\ observed' = Some(Borrow(Unwrap(mode)))
             /\ call' = CallRecord(op, NoClosure, mode, FALSE, "returned", "")
             /\ result' = None
             /\ UNCHANGED <<mode, pc, held, stayBase, constructed>>

\* AsRef::as_ref and Deref::deref: self.borrow_mode().
\* (Variant: the trait method hands out a default value without forwarding.)
TraitBorrowMutant(op) ==
    /\ observed' = Some(Borrow(DefaultMode))
    /\ call' = CallRecord(op, NoClosure, mode, FALSE, "returned", "")
    /\ result' = None
    /\ UNCHANGED <<mode, pc, held, stayBase, constructed>>

TraitBorrow(op) == BorrowMode(op)

TraitBorrowOps == {"deref", "as_ref"}

BorrowOps == {"borrow_mode", "fmt_debug", "fmt_display"} \cup TraitBorrowOps

borrow_mode ==
    /\ pc = "idle"
    /\ \E op \in BorrowOps :
        IF op \in TraitBorrowOps THEN TraitBorrow(op) ELSE BorrowMode(op)
    /\ UNCHANGED nonAutoVars

\* borrow_mode_mut(): self.mode.as_mut().expect(..).borrow_mut(), and what
\* the caller writes through the reference.  DerefMut::deref_mut and
\* AsMut::as_mut are calls of borrow_mode_mut.
BorrowModeMut(op, w) ==
    IF IsNone(mode)
        THEN Panic(op, NoClosure, ERR_BORROW)
        ELSE /\ w = "update" => Unwrap(mode).count < MaxCount
             /\ mode' = Some(BaseWrite(w, Unwrap(mode)))
             /\ observed' = Some(Borrow(BaseWrite(w, Unwrap(mode))))
             /\ call' = CallRecord(op, NoClosure, mode, FALSE, "returned", "")
             /\ result' = None
             /\ stayBase' = IF w = "none" THEN stayBase ELSE None
             /\ constructed' = IF w = "none" THEN constructed ELSE None
             /\ UNCHANGED <<pc, held>>

\* AsMut::as_mut and DerefMut::deref_mut: self.borrow_mode_mut().
TraitBorrowMut(op, w) == BorrowModeMut(op, w)

TraitBorrowMutOps == {"deref_mut", "as_mut"}

BorrowMutOps == {"borrow_mode_mut"} \cup TraitBorrowMutOps

borrow_mode_mut ==
    /\ pc = "idle"
    /\ \E op \in BorrowMutOps, w \in Writes :
        IF op \in TraitBorrowMutOps THEN TraitBorrowMut(op, w) ELSE BorrowModeMut(op, w)
    /\ UNCHANGED nonAutoVars

\* The executing transition_fn borrows the automaton it was called by.
reenter_borrow ==
    /\ pc = "in_fn"
    /\ call.fn.fn = "reenters_borrow"
    /\ \/ BorrowMode("borrow_mode")
       \/ BorrowModeMut("borrow_mode_mut", "none")
    /\ UNCHANGED nonAutoVars

InitAutomaton ==
    /\ mode \in {Some(m) : m \in FamilyMode}
    /\ pc = "idle"
    /\ held = None
    /\ call = CallRecord("with_mode", NoClosure, None, FALSE, "returned", "")
    /\ result = None
    /\ observed = None
    /\ stayBase = None
    /\ constructed = mode

NextAutomaton ==
    \/ with_mode
    \/ new
    \/ next
    \/ next_with_result
    \/ NextReturn
    \/ transition_fn_panics
    \/ reenter_next
    \/ borrow_mode
    \/ borrow_mode_mut
    \/ reenter_borrow


\* -------------------------------------- the modes of the wrapper layer

\* The modes of the crate's documentation example: Working, Eating, Sleeping.
\* A field a struct does not have is 0 (None, FALSE).
Working(h) ==
    [type |-> "Working", hours_worked |-> h, calories_consumed |-> 0,
     hours_rested |-> 0, queued_transition |-> None, ready |-> FALSE]

Eating(h, c) ==
    [type |-> "Eating", hours_worked |-> h, calories_consumed |-> c,
     hours_rested |-> 0, queued_transition |-> None, ready |-> FALSE]

Sleeping(r) ==
    [type |-> "Sleeping", hours_worked |-> 0, calories_consumed |-> 0,
     hours_rested |-> r, queued_transition |-> None, ready |-> FALSE]

\* SomeMode of the documentation of Transition: a mode that queues a
\* Transition during update() and hands it out once it is ready to transition.
SomeMode(q, ready) ==
    [type |-> "SomeMode", hours_worked |-> 0, calories_consumed |-> 0,
     hours_rested |-> 0, queued_transition |-> q, ready |-> ready]

\* SomeOtherMode of the same documentation: a unit struct that never
\* transitions.
SomeOtherMode ==
    [type |-> "SomeOtherMode", hours_worked |-> 0, calories_consumed |-> 0,
     hours_rested |-> 0, queued_transition |-> None, ready |-> FALSE]

\* The thresholds of the three get_transition implementations.
LunchHour == 4

DinnerHour == 8

FullCalories == 500

RestedHours == 8

\* calories_consumed += 100
CaloriesPerMeal == 100

\* Activity::update(&mut self) of the three modes.
Update(m) ==
    CASE m.type = "Working"  -> [m EXCEPT !.hours_worked = @ + 1]
      [] m.type = "Eating"   -> [m EXCEPT !.calories_consumed = @ + CaloriesPerMeal]
      [] m.type = "Sleeping" -> [m EXCEPT !.hours_rested = @ + 1]

\* The callers stop updating a mode at the bounds.
CanUpdate(m) ==
    CASE m.type = "Working"  -> m.hours_worked < MaxHours
      [] m.type = "Eating"   -> m.calories_consumed < MaxCalories
      [] m.type = "Sleeping" -> m.hours_rested < MaxHours
      [] OTHER               -> TRUE

\* What a call of update() finds: for SomeMode whether some_condition holds
\* and which closure it then queues (one that builds SomeOtherMode, or one
\* that returns the mode it is given), or that the mode finishes updating.
UpdateInputs(m) ==
    IF m.type = "SomeMode"
        THEN {"queue_some_other_mode", "queue_previous", "finish"}
        ELSE {"update"}

\* MyMode::update(&mut self) / Activity::update(&mut self) on input u.
UpdateWith(u, m) ==
    CASE m.type = "SomeMode" ->
            CASE u = "queue_some_other_mode" ->
                    [m EXCEPT !.queued_transition = Some("to_some_other_mode")]
              [] u = "queue_previous" ->
                    [m EXCEPT !.queued_transition = Some("to_previous")]
              [] OTHER -> [m EXCEPT !.ready = TRUE]
      [] m.type = "SomeOtherMode" -> m
      [] OTHER -> Update(m)

\* Mode::get_transition(&mut self): the Transition it returns, if any, and the
\* mode as the call leaves it (the implementations of Working, Eating and
\* Sleeping only read self; SomeMode takes the queued Transition out of its
\* field when it is ready).
\* (Variant: SomeMode hands its queued Transition out without taking it out of
\* the field.)
GetTransitionKeepsMutant(m) ==
    [mode |-> m,
     transition |->
        CASE m.type = "Working" ->
                IF m.hours_worked = LunchHour \/ m.hours_worked >= DinnerHour
                    THEN Some("to_eating") ELSE None
          [] m.type = "Eating" ->
                IF m.calories_consumed >= FullCalories
                    THEN IF m.hours_worked >= DinnerHour
                            THEN Some("to_sleeping") ELSE Some("to_working")
                    ELSE None
          [] m.type = "Sleeping" ->
                IF m.hours_rested >= RestedHours
                    THEN Some("to_breakfast") ELSE None
          [] m.type = "SomeMode" ->
                IF m.ready /\ IsSome(m.queued_transition)
                    THEN m.queued_transition ELSE None
          [] OTHER -> None]

GetTransition(m) ==
    [mode |-> IF m.type = "SomeMode" /\ m.ready /\ IsSome(m.queued_transition)
                 THEN [m EXCEPT !.queued_transition = None]
                 ELSE m,
     transition |->
        CASE m.type = "Working" ->
                IF m.hours_worked = LunchHour \/ m.hours_worked >= DinnerHour
                    THEN Some("to_eating") ELSE None
          [] m.type = "Eating" ->
                IF m.calories_consumed >= FullCalories
                    THEN IF m.hours_worked >= DinnerHour
                            THEN Some("to_sleeping") ELSE Some("to_working")
                    ELSE None
          [] m.type = "Sleeping" ->
                IF m.hours_rested >= RestedHours
                    THEN Some("to_breakfast") ELSE None
          [] m.type = "SomeMode" ->
                IF m.ready /\ IsSome(m.queued_transition)
                    THEN m.queued_transition ELSE None
          [] OTHER -> None]

\* The bodies of the boxed closures FnOnce(A) -> B of the example.
\* (Variant: the closure that goes back to work starts the working day again.)
TransitionBodyMutant(t, previous) ==
    CASE t = "to_eating"    -> Eating(previous.hours_worked, 0)
      [] t = "to_sleeping"  -> Sleeping(0)
      [] t = "to_working"   -> Working(0)
      [] t = "to_breakfast" -> Eating(0, 0)
      [] t = "to_some_other_mode" -> SomeOtherMode
      [] t = "to_previous"  -> previous

TransitionBody(t, previous) ==
    CASE t = "to_eating"    -> Eating(previous.hours_worked, 0)
      [] t = "to_sleeping"  -> Sleeping(0)
      [] t = "to_working"   -> Working(previous.hours_worked)
      [] t = "to_breakfast" -> Eating(0, 0)
      [] t = "to_some_other_mode" -> SomeOtherMode
      [] t = "to_previous"  -> previous

\* Mode::as_base(&self) / as_base_mut(&mut self): { self }, the mode itself
\* behind a reference to its Base.
AsBase(m) == m

\* ModeWrapper::new(mode)
NewWrapper(m) == [mode |-> Some(m)]

\* Transition::invoke(self : Box<Self>, mode): the closure is called on the
\* mode and its result wrapped.
\* (Variant: the mode is wrapped without the closure being called.)
InvokeMutant(t, m) == NewWrapper(m)

\* (Variant: the closure is called on a freshly built mode, not the one moved in.)
InvokeFreshMutant(t, m) == NewWrapper(TransitionBody(t, SomeMode(None, FALSE)))

Invoke(t, m) == NewWrapper(TransitionBody(t, m))

\* self.mode.take() in perform_transitions: what it leaves in the wrapper.
\* (Variant: the mode is cloned out and stays in the wrapper.)
WrapperAfterTakeMutant(w) == w

WrapperAfterTake(w) == [w EXCEPT !.mode = None]

\* invoke takes self : Box<Self>: the Transition is consumed by the call.
\* (Variant: invoke by reference leaves the Transition usable.)
TransitionAfterInvokeMutant(t) == t

TransitionAfterInvoke(t) == None

\* self.mode.as_mut().unwrap().get_transition(): the mode is borrowed in
\* place, so the wrapper holds it, as the call left it, afterwards.
\* (Variant: take() in place of as_mut() empties the wrapper.)
WrapperAfterGetMutant(w, m) == [w EXCEPT !.mode = None]

WrapperAfterGet(w, m) == [w EXCEPT !.mode = Some(m)]

WCallRecord(op, pre, got, gets, invokes, outcome, err) ==
    [op |-> op, pre |-> pre, got |-> got, gets |-> gets, invokes |-> invokes,
     outcome |-> outcome, err |-> err]

\* A panic in the wrapper layer: the objects keep their fields.
WPanic(op, err) ==
    /\ wcall' = WCallRecord(op, wrapper.mode, None, 0, 0, "panicked", err)
    /\ wpc' = "idle"
    /\ wobserved' = None
    /\ UNCHANGED <<wrapper, returned, transition, inflight>>

\* perform_transitions on the stored wrapper, up to the call of the
\* Transition: get_transition() on the inner mode; None is returned at once,
\* a Transition is invoked on the mode taken out of the wrapper.
perform_transitions ==
    /\ wpc = "idle"
    /\ IF IsNone(wrapper.mode)
          THEN WPanic("perform_transitions", ERR_UNWRAP)
          ELSE LET g == GetTransition(Unwrap(wrapper.mode))
               IN  IF IsNone(g.transition)
                      THEN /\ wrapper' = WrapperAfterGet(wrapper, g.mode)
                           /\ returned' = None
                           /\ wcall' = WCallRecord("perform_transitions",
                                          wrapper.mode, None, 1, 0, "None", "")
                           /\ wobserved' = None
                           /\ UNCHANGED <<wpc, transition, inflight>>
                      ELSE /\ transition' = g.transition
                           /\ inflight' = Some(g.mode)
                           /\ wrapper' = WrapperAfterTake(
                                            WrapperAfterGet(wrapper, g.mode))
                           /\ wpc' = "invoking"
                           /\ wcall' = WCallRecord("perform_transitions",
                                          wrapper.mode, g.transition, 1, 1,
                                          "running", "")
                           /\ wobserved' = None
                           /\ UNCHANGED returned
    /\ UNCHANGED nonWrapVars

\* The Transition closure returns: invoke wraps the mode it produced and
\* perform_transitions returns Some(new wrapper).
perform_transitions_return ==
    /\ wpc = "invoking"
    /\ returned' = Some(Invoke(Unwrap(transition), Unwrap(inflight)))
    /\ transition' = TransitionAfterInvoke(transition)
    /\ inflight' = None
    /\ wpc' = "idle"
    /\ wcall' = [wcall EXCEPT !.outcome = "Some"]
    /\ UNCHANGED <<wrapper, wobserved>>
    /\ UNCHANGED nonWrapVars

\* The holder replaces the wrapper it stores by the one handed back.
replace_wrapper ==
    /\ wpc = "idle"
    /\ IsSome(returned)
    /\ wrapper' = Unwrap(returned)
    /\ returned' = None
    /\ wcall' = WCallRecord("replace_wrapper", wrapper.mode, None, 0, 0,
                            "returned", "")
    /\ wobserved' = None
    /\ UNCHANGED <<wpc, transition, inflight>>
    /\ UNCHANGED nonWrapVars

\* AnyModeWrapper::borrow_mode on wrapper w: self.mode.as_ref().unwrap().as_base()
WrapperBorrowMode(op, w) ==
    IF IsNone(w.mode)
        THEN WPanic(op, ERR_UNWRAP)
        ELSE /\ wobserved' = Some(AsBase(Unwrap(w.mode)))
             /\ wcall' = WCallRecord(op, w.mode, None, 0, 0, "returned", "")
             /\ UNCHANGED <<wrapper, returned, wpc, transition, inflight>>

\* borrow_mode on the stored wrapper, or on the one just handed back.
wrapper_borrow_mode ==
    /\ wpc = "idle"
    /\ \/ WrapperBorrowMode("borrow_mode", wrapper)
       \/ /\ IsSome(returned)
          /\ WrapperBorrowMode("borrow_mode_returned", Unwrap(returned))
    /\ UNCHANGED nonWrapVars

\* borrow_mode_mut on the stored wrapper and update() through the reference:
\* self.mode.as_mut().unwrap().as_base_mut()
wrapper_borrow_mode_mut ==
    /\ wpc = "idle"
    /\ IF IsNone(wrapper.mode)
          THEN WPanic("borrow_mode_mut", ERR_UNWRAP)
          ELSE /\ CanUpdate(Unwrap(wrapper.mode))
               /\ \E u \in UpdateInputs(Unwrap(wrapper.mode)) :
                    /\ wrapper' = [wrapper EXCEPT
                                      !.mode = Some(UpdateWith(u, Unwrap(@)))]
                    /\ wobserved' =
                          Some(AsBase(UpdateWith(u, Unwrap(wrapper.mode))))
               /\ wcall' = WCallRecord("borrow_mode_mut", wrapper.mode, None,
                                       0, 0, "returned", "")
               /\ UNCHANGED <<returned, wpc, transition, inflight>>
    /\ UNCHANGED nonWrapVars

\* Automaton::with_initial_mode(mode) of the example wraps its argument.
InitialModes == {Working(0), Eating(0, 0), Sleeping(0), SomeMode(None, FALSE)}

InitWrapper ==
    /\ wrapper \in {NewWrapper(m) : m \in InitialModes}
    /\ returned = None
    /\ wpc = "idle"
    /\ transition = None
    /\ inflight = None
    /\ wcall = WCallRecord("new", None, None, 0, 0, "returned", "")
    /\ wobserved = None

NextWrapper ==
    \/ perform_transitions
    \/ perform_transitions_return
    \/ replace_wrapper
    \/ wrapper_borrow_mode
    \/ wrapper_borrow_mode_mut

\* ------------------------------------ pointer storage (Box, Rc, Arc modes)

\* The pointer types the crate adapts: boxed::Mode, rc::Mode, sync::Mode.
PointerKinds == {"Box", "Rc", "Arc"}

\* The addresses the allocator hands out.
Addrs == 1..MaxAddr

\* A pointer value: its kind and the address of its pointee.
Pointer(kind, addr) == [kind |-> kind, addr |-> addr]

\* The heap maps an address to Some(pointee), or to None when it is free.
EmptyHeap == [a \in Addrs |-> None]

FreeAddrs(h) == {a \in Addrs : IsNone(h[a])}

Pointee(p, h) == Unwrap(h[p.addr])

\* The values of F::Input the callers pass to swap.
Inputs == {Unit, "context"}

\* The conditions under which the Activity modes of examples/activity.rs
\* build a successor instead of returning self.
ElectsToSwap(m) ==
    CASE m.type = "Working"  -> m.hours_worked = LunchHour \/ m.hours_worked >= DinnerHour
      [] m.type = "Eating"   -> m.calories_consumed >= FullCalories
      [] m.type = "Sleeping" -> m.hours_rested >= RestedHours
      [] OTHER               -> FALSE

\* The successor they build.
\* (Variant: Eating forgets the hours worked before lunch.)
SuccessorMutant(m) ==
    CASE m.type = "Working"  -> Eating(0, 0)
      [] m.type = "Eating"   -> IF m.hours_worked >= DinnerHour
                                    THEN Sleeping(0)
                                    ELSE Working(m.hours_worked)
      [] m.type = "Sleeping" -> Eating(0, 0)
      [] OTHER               -> m

Successor(m) ==
    CASE m.type = "Working"  -> Eating(m.hours_worked, 0)
      [] m.type = "Eating"   -> IF m.hours_worked >= DinnerHour
                                    THEN Sleeping(0)
                                    ELSE Working(m.hours_worked)
      [] m.type = "Sleeping" -> Eating(0, 0)
      [] OTHER               -> m

\* What a swap yields: the pointer returned, the heap it leaves, the input
\* the pointee's swap received, how many times the pointee's swap ran, and
\* whether the call returned at all.
SwapResult(p, h, input, swaps, returns) ==
    [mode |-> p, heap |-> h, input |-> input, swaps |-> swaps,
     returns |-> returns]

\* The pointee's own swap(self : Box<Self>, input): a mode that stays returns
\* self, the pointer it was called through; one that transitions allocates
\* its successor at the address `a` the allocator picked, and the pointer it
\* was called through is dropped when swap returns.
\* (Variant: a mode that stays returns Box::new(*self), a new allocation.)
PointeeSwapReboxMutant(p, input, h, a) ==
    LET m == Pointee(p, h)
    IN  SwapResult(Pointer(p.kind, a),
                   [h EXCEPT ![a] = Some(IF ElectsToSwap(m) THEN Successor(m) ELSE m),
                             ![p.addr] = None],
                   input, 1, TRUE)

PointeeSwap(p, input, h, a) ==
    LET m == Pointee(p, h)
    IN  IF ElectsToSwap(m)
            THEN SwapResult(Pointer(p.kind, a),
                            [h EXCEPT ![a] = Some(Successor(m)), ![p.addr] = None],
                            input, 1, TRUE)
            ELSE SwapResult(p, h, input, 1, TRUE)

\* The function that self.swap(input) in the body of the adapter names: the
\* only trait with a method swap in scope of the modules boxed, rc and sync
\* is that module's own Mode, implemented by the pointee.
\* (Variant: the call names the adapter's own crate::Mode::swap.)
SwapCalleeMutant(kind) == "adapter"

SwapCallee(kind) == "pointee"

\* impl crate::Mode for Box<T> / Rc<T> / Arc<T>: swap(self, input) is
\* self.swap(input).  A call that named the adapter itself would recurse
\* without end and never return.
AdapterSwap(p, input, h, a) ==
    IF SwapCallee(p.kind) = "pointee"
        THEN PointeeSwap(p, input, h, a)
        ELSE SwapResult(p, h, input, 0, FALSE)

\* A call on the automaton with pointer storage.
PCallRecord(op, pre, preHeap, input, alloc, out, outcome) ==
    [op |-> op, pre |-> pre, preHeap |-> preHeap, input |-> input,
     alloc |-> alloc, received |-> out.input, swaps |-> out.swaps,
     outcome |-> outcome]

NoSwap == SwapResult(None, EmptyHeap, Unit, 0, TRUE)

\* Automaton::next(&mut automaton, |mode| mode.swap(input)) on an automaton
\* whose F::Mode is a pointer: the pointer is taken out of the slot, swapped,
\* and the pointer that swap returns is installed.
pointer_next ==
    /\ IsSome(pmode)
    /\ \E input \in Inputs, a \in FreeAddrs(heap) :
        LET out == AdapterSwap(Unwrap(pmode), input, heap, a)
        IN  IF out.returns
                THEN /\ pmode' = Install(SlotAfterTake(pmode), out.mode)
                     /\ heap' = out.heap
                     /\ pcall' = PCallRecord("next", pmode, heap, input, a, out,
                                             "returned")
                ELSE /\ pmode' = SlotAfterTake(pmode)
                     /\ heap' = heap
                     /\ pcall' = PCallRecord("next", pmode, heap, input, a, out,
                                             "aborted")
    /\ UNCHANGED nonPointerVars

\* person.update() through DerefMut: only a Box hands out a &mut to its
\* pointee, which is updated in place.
pointer_update ==
    /\ IsSome(pmode)
    /\ Unwrap(pmode).kind = "Box"
    /\ CanUpdate(Pointee(Unwrap(pmode), heap))
    /\ heap' = [heap EXCEPT ![Unwrap(pmode).addr] =
                                Some(Update(Pointee(Unwrap(pmode), heap)))]
    /\ pcall' = PCallRecord("deref_mut", pmode, heap, Unit,
                            Unwrap(pmode).addr, NoSwap, "returned")
    /\ UNCHANGED pmode
    /\ UNCHANGED nonPointerVars

\* The modes a caller puts behind the pointer it constructs the automaton
\* with: the Activity modes with any field values within the bounds.
Payloads ==
    {Working(h) : h \in 0..MaxHours}
        \cup {Eating(h, CaloriesPerMeal * c) :
                  h \in 0..MaxHours, c \in 0..(MaxCalories \div CaloriesPerMeal)}
        \cup {Sleeping(r) : r \in 0..MaxHours}

\* Automaton::with_mode(Box::new(m)), and the same with Rc::new and Arc::new.
InitPointer ==
    /\ \E k \in PointerKinds, a \in Addrs, m \in Payloads :
        /\ pmode = Some(Pointer(k, a))
        /\ heap = [EmptyHeap EXCEPT ![a] = Some(m)]
    /\ pcall = PCallRecord("with_mode", None, EmptyHeap, Unit, 1, NoSwap,
                           "returned")

\* One such automaton: a Box at the first address holding Working(0).
PinPointer ==
    /\ pmode = Some(Pointer("Box", 1))
    /\ heap = [EmptyHeap EXCEPT ![1] = Some(Working(0))]

NextPointer ==
    \/ pointer_next
    \/ pointer_update

\* --------------------------- the loops of the documentation of the Automaton

\* while automaton.count < 10 { .. }
LoopTarget == 10

\* A caller's program: "count" is the loop of the documentation of new(),
\* run to any target up to the documented one; "state" is the loop of the
\* documentation of next(), started from any State.
CountProgram(t) == [kind |-> "count", target |-> t, start |-> "A"]

StateProgram(s) == [kind |-> "state", target |-> 0, start |-> s]

Programs ==
    {CountProgram(t) : t \in 0..LoopTarget} \cup {StateProgram(s) : s \in Names}

\* The automaton the program constructs: Automaton::new(), or
\* SomeFamily::automaton_with_mode(State::A).
ProgramStart(p) ==
    IF p.kind = "count"
        THEN NewSlot
        ELSE WithMode([family |-> F, name |-> p.start, count |-> 0])

\* The loop condition, read through Deref: automaton.count < 10, or
\* *automaton != State::C.
LoopCondition(p, base) ==
    IF p.kind = "count" THEN base.count < p.target ELSE base.name # "C"

\* The closure of the loop body: |current_mode| current_mode.update(), or
\* |current_mode| current_mode.next().
LoopFn(p) == IF p.kind = "count" THEN "count_up" ELSE "state_next"

\* Everything outside the automaton and the program that drives it.
nonLoopVars == <<wrapVars, pointerVars, counterVars, turingVars, activityVars>>

\* The loop condition is evaluated on the reference Deref returns.
loop_test ==
    /\ lpc = "test"
    /\ pc = "idle"
    /\ TraitBorrow("deref")
    /\ lpc' = IF IsSome(mode) /\ LoopCondition(program, Borrow(Unwrap(mode)))
                  THEN "body" ELSE "done"
    /\ UNCHANGED <<program, calls>>
    /\ UNCHANGED nonLoopVars

\* The loop body calls Automaton::next; the call returns by NextReturn.
loop_next ==
    /\ lpc = "body"
    /\ pc = "idle"
    /\ NextCall("next", NextClosure(LoopFn(program)))
    /\ lpc' = "test"
    /\ calls' = calls + 1
    /\ UNCHANGED program
    /\ UNCHANGED nonLoopVars

InitLoop ==
    /\ program \in Programs
    /\ lpc = "test"
    /\ calls = 0

PinLoop == program = CountProgram(LoopTarget)

NextLoop ==
    \/ loop_test
    \/ loop_next
    \/ NextReturn

\* ------------------------------------------ the counter of examples/counter.rs

UpMode(c, t) == [type |-> "UpMode", counter |-> c, target |-> t, result |-> 0]

DownMode(c, t) == [type |-> "DownMode", counter |-> c, target |-> t, result |-> 0]

FinishedMode(r) == [type |-> "FinishedMode", counter |-> 0, target |-> 0, result |-> r]

\* const GOAL : i32 = 10
GOAL == 10

\* UpMode { counter: 0, target: 3 } of main.
InitialTarget == 3

\* Counter::update(&mut self)
CounterUpdate(m) ==
    CASE m.type = "UpMode"   -> [m EXCEPT !.counter = @ + 1]
      [] m.type = "DownMode" -> [m EXCEPT !.counter = @ - 1]
      [] OTHER               -> m

\* Counter::get_result(&self) and Counter::has_result(&self)
GetResult(m) == IF m.type = "FinishedMode" THEN Some(m.result) ELSE None

HasResult(m) == IsSome(GetResult(m))

\* UpMode::transition(self : Box<Self>): the pair (next mode, switched).
\* (Variant: the new target is the half of the counter, without the + 1.)
UpTransitionMutant(m) ==
    IF m.counter = m.target
        THEN <<DownMode(m.counter, m.counter \div 2), TRUE>>
        ELSE <<m, FALSE>>

UpTransition(m) ==
    IF m.counter = m.target
        THEN <<DownMode(m.counter, (m.counter \div 2) + 1), TRUE>>
        ELSE <<m, FALSE>>

\* DownMode::transition(self : Box<Self>)
\* (Variant: FinishedMode is given the target, not the counter.)
DownTransitionResultMutant(m) ==
    IF m.counter = GOAL
        THEN <<FinishedMode(m.target), TRUE>>
        ELSE IF m.counter = m.target
                 THEN <<UpMode(m.counter, m.counter * 2), TRUE>>
                 ELSE <<m, FALSE>>

\* (Variant: a switch back to UpMode is not reported.)
DownTransitionSilentMutant(m) ==
    IF m.counter = GOAL
        THEN <<FinishedMode(m.counter), TRUE>>
        ELSE IF m.counter = m.target
                 THEN <<UpMode(m.counter, m.counter * 2), FALSE>>
                 ELSE <<m, FALSE>>

\* (Variant: the target is compared before the goal.)
DownTransitionTargetFirstMutant(m) ==
    IF m.counter = m.target
        THEN <<UpMode(m.counter, m.counter * 2), TRUE>>
        ELSE IF m.counter = GOAL
                 THEN <<FinishedMode(m.counter), TRUE>>
                 ELSE <<m, FALSE>>

DownTransition(m) ==
    IF m.counter = GOAL
        THEN <<FinishedMode(m.counter), TRUE>>
        ELSE IF m.counter = m.target
                 THEN <<UpMode(m.counter, m.counter * 2), TRUE>>
                 ELSE <<m, FALSE>>

\* FinishedMode::transition(self : Box<Self>)
\* (Variant: FinishedMode reports a switch.)
FinishedTransitionMutant(m) == <<m, TRUE>>

FinishedTransition(m) == <<m, FALSE>>

\* Mode::transition of the current mode, by dynamic dispatch.
CounterTransition(m) ==
    CASE m.type = "UpMode"   -> UpTransition(m)
      [] m.type = "DownMode" -> DownTransition(m)
      [] OTHER               -> FinishedTransition(m)

\* automaton.update() through DerefMut.
UpdateCounter ==
    /\ cmode' = Some(CounterUpdate(Unwrap(cmode)))
    /\ cop' = "update"
    /\ cprev' = cmode
    /\ UNCHANGED creport

\* Automaton::transition(&mut automaton): the current mode is taken out of
\* the slot, its transition is called, the mode it returns is installed and
\* the bool returned.
TransitionCounter ==
    /\ LET out == CounterTransition(Unwrap(cmode))
       IN  /\ cmode' = Install(SlotAfterTake(cmode), out[1])
           /\ creport' = Some(out[2])
    /\ cop' = "transition"
    /\ cprev' = cmode

\* while !automaton.has_result()
counter_test ==
    /\ cpc = "test"
    /\ cpc' = IF HasResult(Unwrap(cmode)) THEN "finish" ELSE "update"
    /\ UNCHANGED <<cmode, creport, rounds, cout, cop, cprev>>
    /\ UNCHANGED nonCounterVars

\* automaton.update()
counter_update ==
    /\ cpc = "update"
    /\ UpdateCounter
    /\ cpc' = "transition"
    /\ UNCHANGED <<rounds, cout>>
    /\ UNCHANGED nonCounterVars

\* if Automaton::transition(&mut automaton) { .. }: this ends a round of the
\* loop.
counter_transition ==
    /\ cpc = "transition"
    /\ TransitionCounter
    /\ rounds' = rounds + 1
    /\ cpc' = "test"
    /\ UNCHANGED cout
    /\ UNCHANGED nonCounterVars

\* println!("FINISHED! Result: {}", automaton.get_result().unwrap())
counter_finish ==
    /\ cpc = "finish"
    /\ cout' = GetResult(Unwrap(cmode))
    /\ cpc' = "exit"
    /\ UNCHANGED <<cmode, creport, rounds, cop, cprev>>
    /\ UNCHANGED nonCounterVars

\* A caller other than main, which updates and transitions the automaton in
\* any order (cpc = "free"): update() on a mode within the bounds.
CanUpdateCounter(m) ==
    CASE m.type = "UpMode"   -> m.counter < MaxCounter
      [] m.type = "DownMode" -> m.counter > 0
      [] OTHER               -> TRUE

any_update ==
    /\ cpc = "free"
    /\ CanUpdateCounter(Unwrap(cmode))
    /\ UpdateCounter
    /\ UNCHANGED <<cpc, rounds, cout>>
    /\ UNCHANGED nonCounterVars

any_transition ==
    /\ cpc = "free"
    /\ TransitionCounter
    /\ UNCHANGED <<cpc, rounds, cout>>
    /\ UNCHANGED nonCounterVars

\* The modes a caller can construct: the fields of UpMode and DownMode are
\* pub; FinishedMode is built by DownMode::transition alone.
CounterModes ==
    {UpMode(c, t) : c \in 0..MaxCounter, t \in 0..MaxCounter}
        \cup {DownMode(c, t) : c \in 0..MaxCounter, t \in 0..MaxCounter}

\* Automaton::with_initial_mode(Box::new(mode)), followed by main's loop
\* ("test") or by the calls of another caller ("free").
InitCounter ==
    /\ cmode \in {Some(m) : m \in CounterModes}
    /\ cpc \in {"test", "free"}
    /\ creport = None
    /\ rounds = 0
    /\ cout = None
    /\ cop = "with_initial_mode"
    /\ cprev = None

\* main: Automaton::with_initial_mode(Box::new(UpMode { counter: 0, target: 3 }))
PinCounter ==
    /\ cmode = Some(UpMode(0, InitialTarget))
    /\ cpc = "test"

NextCounter ==
    \/ counter_test
    \/ counter_update
    \/ counter_transition
    \/ counter_finish

NextCounterAny ==
    \/ any_update
    \/ any_transition

\* ------------------------------------------ the machine of examples/turing.rs

\* const HEAD : u16 = 8
HEAD == 8

\* const MASK : u16 = 1 << HEAD
MASK == 2 ^ HEAD

\* The tape is a u16.
TapeBits == 16

\* let mut tape : u16 = 0b111 << HEAD: three ones.
TapeOnes == 3

\* The tape main starts from, and the same with k ones in place of three.
TapeOf(k) == (((2 ^ k) - 1) * (2 ^ HEAD)) % (2 ^ TapeBits)

\* enum Name { A, B, C, D, E, H }
TuringNames == {"A", "B", "C", "D", "E", "H"}

State(name, tape) == [name |-> name, tape |-> tape]

\* (*self.tape & MASK) >> HEAD
Bit(tape) == (tape \div MASK) % 2

\* (Variant: the halt state starts the machine again.)
TableRestartMutant(name, bit) ==
    CASE name = "A" /\ bit = 0 -> <<"H", None>>
      [] name = "A" /\ bit = 1 -> <<"B", Some(<<"Clear", "Right">>)>>
      [] name = "B" /\ bit = 0 -> <<"C", Some(<<"Clear", "Right">>)>>
      [] name = "B" /\ bit = 1 -> <<"B", Some(<<"Print", "Right">>)>>
      [] name = "C" /\ bit = 0 -> <<"D", Some(<<"Print", "Left">>)>>
      [] name = "C" /\ bit = 1 -> <<"C", Some(<<"Print", "Right">>)>>
      [] name = "D" /\ bit = 0 -> <<"E", Some(<<"Clear", "Left">>)>>
      [] name = "D" /\ bit = 1 -> <<"D", Some(<<"Print", "Left">>)>>
      [] name = "E" /\ bit = 0 -> <<"A", Some(<<"Print", "Right">>)>>
      [] name = "E" /\ bit = 1 -> <<"E", Some(<<"Print", "Left">>)>>
      [] OTHER                 -> <<"A", None>>

\* The match of State::swap: the next name and Some((print_op, shift_op)),
\* or None to halt.
Table(name, bit) ==
    CASE name = "A" /\ bit = 0 -> <<"H", None>>
      [] name = "A" /\ bit = 1 -> <<"B", Some(<<"Clear", "Right">>)>>
      [] name = "B" /\ bit = 0 -> <<"C", Some(<<"Clear", "Right">>)>>
      [] name = "B" /\ bit = 1 -> <<"B", Some(<<"Print", "Right">>)>>
      [] name = "C" /\ bit = 0 -> <<"D", Some(<<"Print", "Left">>)>>
      [] name = "C" /\ bit = 1 -> <<"C", Some(<<"Print", "Right">>)>>
      [] name = "D" /\ bit = 0 -> <<"E", Some(<<"Clear", "Left">>)>>
      [] name = "D" /\ bit = 1 -> <<"D", Some(<<"Print", "Left">>)>>
      [] name = "E" /\ bit = 0 -> <<"A", Some(<<"Print", "Right">>)>>
      [] name = "E" /\ bit = 1 -> <<"E", Some(<<"Print", "Left">>)>>
      [] OTHER                 -> <<"H", None>>

\* *self.tape | (1 << HEAD) and *self.tape & !(1 << HEAD)
PrintOp(print_op, tape) ==
    IF print_op = "Print"
        THEN IF Bit(tape) = 1 THEN tape ELSE tape + MASK
        ELSE IF Bit(tape) = 1 THEN tape - MASK ELSE tape

\* (Variant: the tape is twelve bits wide.)
ShiftOpNarrowMutant(shift_op, tape) ==
    IF shift_op = "Left" THEN (tape * 2) % (2 ^ 12) ELSE tape \div 2

\* *self.tape << 1 and *self.tape >> 1 on a u16
ShiftOp(shift_op, tape) ==
    IF shift_op = "Left" THEN (tape * 2) % (2 ^ TapeBits) ELSE tape \div 2

\* State::swap(mut self) -> (Self, bool): the state it returns and !halt.
\* (Variant: halt is returned in place of !halt.)
StateSwapMutant(m) ==
    LET row == Table(m.name, Bit(m.tape))
        op  == row[2]
    IN  <<State(row[1], IF IsSome(op)
                            THEN ShiftOp(Unwrap(op)[2], PrintOp(Unwrap(op)[1], m.tape))
                            ELSE m.tape),
          IsNone(op)>>

\* (Variant: the tape is shifted first and the head bit written afterwards.)
StateSwapShiftFirstMutant(m) ==
    LET row == Table(m.name, Bit(m.tape))
        op  == row[2]
    IN  <<State(row[1], IF IsSome(op)
                            THEN PrintOp(Unwrap(op)[1], ShiftOp(Unwrap(op)[2], m.tape))
                            ELSE m.tape),
          IsSome(op)>>

StateSwap(m) ==
    LET row == Table(m.name, Bit(m.tape))
        op  == row[2]
    IN  <<State(row[1], IF IsSome(op)
                            THEN ShiftOp(Unwrap(op)[2], PrintOp(Unwrap(op)[1], m.tape))
                            ELSE m.tape),
          IsSome(op)>>

\* while Automaton::next_with_output(&mut automaton) { }: the state is taken
\* out of the slot, swapped, the state returned is installed, and the bool
\* returned decides whether the loop goes on.
turing_next ==
    /\ tpc = "loop"
    /\ tsteps < MaxSteps
    /\ LET out == StateSwap(Unwrap(tmode))
       IN  /\ tmode' = Install(SlotAfterTake(tmode), out[1])
           /\ tout' = Some(out[2])
           /\ tpc' = IF out[2] THEN "loop" ELSE "done"
    /\ tsteps' = tsteps + 1
    /\ UNCHANGED tones
    /\ UNCHANGED nonTuringVars

\* Automaton::next_with_output(&mut automaton) called by any caller, whatever
\* the last call returned.
any_turing_next ==
    /\ tpc = "free"
    /\ LET out == StateSwap(Unwrap(tmode))
       IN  /\ tmode' = Install(SlotAfterTake(tmode), out[1])
           /\ tout' = Some(out[2])
    /\ UNCHANGED <<tones, tpc, tsteps>>
    /\ UNCHANGED nonTuringVars

\* The tapes a caller may construct the automaton with: any bits within
\* MaxSpan positions of the head, and either bit at the two ends of the u16.
AnyTapes ==
    {low + (mid * (2 ^ (HEAD - MaxSpan))) + (high * (2 ^ (TapeBits - 1))) :
        low \in {0, 1}, high \in {0, 1},
        mid \in 0..((2 ^ ((2 * MaxSpan) + 1)) - 1)}

\* Automaton::with_mode(State { name: Name::A, tape: &mut tape }), for the
\* tape of main and for tapes of fewer or more ones.
\* Likewise for a caller other than main (tpc = "free"), who constructs the
\* automaton with any State and calls next_with_output as often as it likes.
InitTuring ==
    /\ \/ /\ tpc = "loop"
          /\ tones \in 0..MaxOnes
          /\ tmode = Some(State("A", TapeOf(tones)))
       \/ /\ tpc = "free"
          /\ tones = 0
          /\ tmode \in {Some(State(n, t)) : n \in TuringNames, t \in AnyTapes}
    /\ tsteps = 0
    /\ tout = None

PinTuring ==
    /\ tpc = "loop"
    /\ tones = TapeOnes
    /\ tmode = Some(State("A", TapeOf(TapeOnes)))

NextTuring == turing_next

NextTuringAny == any_turing_next

\* ----------------------- the three Activity machines and their main loops

\* for _age in 18..100
FirstAge == 18

LastAge == 100

\* Activity::update(&mut self) of the enum of examples/enum.rs.
EnumUpdate(m) ==
    CASE m.type = "Working"  -> [m EXCEPT !.hours_worked = @ + 1]
      [] m.type = "Eating"   -> [m EXCEPT !.calories_consumed = @ + 100]
      [] m.type = "Sleeping" -> [m EXCEPT !.hours_rested = @ + 1]

\* <Activity as Mode>::swap(self) of examples/enum.rs.
\* (Variant: going back to work starts the working day again.)
EnumSwapMutant(m) ==
    CASE m.type = "Working" ->
            IF m.hours_worked = 4 \/ m.hours_worked >= 8
                THEN Eating(m.hours_worked, 0)
                ELSE m
      [] m.type = "Eating" ->
            IF m.calories_consumed >= 500
                THEN IF m.hours_worked >= 8
                        THEN Sleeping(0)
                        ELSE Working(0)
                ELSE m
      [] m.type = "Sleeping" ->
            IF m.hours_rested >= 8
                THEN Eating(0, 0)
                ELSE m

EnumSwap(m) ==
    CASE m.type = "Working" ->
            IF m.hours_worked = 4 \/ m.hours_worked >= 8
                THEN Eating(m.hours_worked, 0)
                ELSE m
      [] m.type = "Eating" ->
            IF m.calories_consumed >= 500
                THEN IF m.hours_worked >= 8
                        THEN Sleeping(0)
                        ELSE Working(m.hours_worked)
                ELSE m
      [] m.type = "Sleeping" ->
            IF m.hours_rested >= 8
                THEN Eating(0, 0)
                ELSE m

\* Automaton::next(&mut person) of examples/enum.rs: the mode is taken out
\* of the slot, swapped, and the result installed.
EnumNext(slot) == Install(SlotAfterTake(slot), EnumSwap(Unwrap(slot)))

\* person.update() through DerefMut on the slot.
EnumDerefUpdate(slot) == Some(EnumUpdate(Unwrap(slot)))

\* ModeWrapper::perform_transitions on wrapper w: the wrapper as the call
\* leaves it and the wrapper it returns, if any.
WrapperPerformTransitions(w) ==
    LET g == GetTransition(Unwrap(w.mode))
    IN  IF IsNone(g.transition)
            THEN [wrapper |-> WrapperAfterGet(w, g.mode), returned |-> None]
            ELSE [wrapper |-> WrapperAfterTake(WrapperAfterGet(w, g.mode)),
                  returned |-> Some(Invoke(Unwrap(g.transition), g.mode))]

\* person.perform_transitions() of the example of lib.rs: the Automaton
\* calls perform_transitions on the wrapper it stores and replaces it by the
\* wrapper handed back, if any.
AutomatonPerformTransitions(w) ==
    LET r == WrapperPerformTransitions(w)
    IN  IF IsSome(r.returned) THEN Unwrap(r.returned) ELSE r.wrapper

\* person.update() through the wrapper: borrow_mode_mut, then update.
WrapperDerefUpdate(w) == [w EXCEPT !.mode = Some(Update(Unwrap(@)))]

\* Automaton::transition(&mut person) of examples/activity.rs: the Box is
\* taken out of the slot, the pointee decides, and the Box it returns (the
\* same one, or one newly allocated at address a) is installed.
BoxedTransition(slot, h, a) ==
    LET out == PointeeSwap(Unwrap(slot), Unit, h, a)
    IN  [slot |-> Install(SlotAfterTake(slot), out.mode), heap |-> out.heap]

\* person.update() through the Box.
BoxedDerefUpdate(slot, h) ==
    [h EXCEPT ![Unwrap(slot).addr] = Some(Update(Pointee(Unwrap(slot), h)))]

\* The three programs run side by side, one round of each at a time.
activity_test ==
    /\ apc = "test"
    /\ apc' = IF age < LastAge THEN "update" ELSE "done"
    /\ UNCHANGED <<deferred, inline, boxed, bheap, age>>
    /\ UNCHANGED nonActivityVars

activity_update ==
    /\ apc = "update"
    /\ deferred' = WrapperDerefUpdate(deferred)
    /\ inline' = EnumDerefUpdate(inline)
    /\ bheap' = BoxedDerefUpdate(boxed, bheap)
    /\ apc' = "transition"
    /\ UNCHANGED <<boxed, age>>
    /\ UNCHANGED nonActivityVars

activity_transition ==
    /\ apc = "transition"
    /\ deferred' = AutomatonPerformTransitions(deferred)
    /\ inline' = EnumNext(inline)
    /\ \E a \in FreeAddrs(bheap) :
          LET out == BoxedTransition(boxed, bheap, a)
          IN  boxed' = out.slot /\ bheap' = out.heap
    /\ age' = age + 1
    /\ apc' = "test"
    /\ UNCHANGED nonActivityVars

\* Automaton::with_initial_mode(Working { hours_worked: 0 }) of lib.rs,
\* Automaton::with_mode(Activity::Working { hours_worked: 0 }) of enum.rs and
\* Automaton::with_initial_mode(Box::new(Working { hours_worked: 0 })) of
\* activity.rs.
InitActivity ==
    /\ deferred = NewWrapper(Working(0))
    /\ inline = WithMode(Working(0))
    /\ boxed = WithMode(Pointer("Box", 1))
    /\ bheap = [EmptyHeap EXCEPT ![1] = Some(Working(0))]
    /\ age = FirstAge
    /\ apc = "test"

NextActivity ==
    \/ activity_test
    \/ activity_update
    \/ activity_transition

\* ---------------------------------------------------------- specifications

\* The automaton alone starts from one wrapper; the wrapper layer alone from
\* one automaton.
Init ==
    /\ InitAutomaton /\ InitWrapper /\ InitPointer /\ InitLoop /\ InitCounter
    /\ InitTuring
    /\ InitActivity

\* One automaton, and one wrapper.
PinAutomaton == mode = Some(DefaultMode)

PinWrapper == wrapper = NewWrapper(Working(0))

InitAutomatonAlone == PinTuring /\ PinCounter /\ PinWrapper /\ PinPointer /\ PinLoop /\ Init

InitWrapperAlone == PinTuring /\ PinCounter /\ PinAutomaton /\ PinPointer /\ PinLoop /\ Init

InitPointerAlone == PinTuring /\ PinCounter /\ PinAutomaton /\ PinWrapper /\ PinLoop /\ Init

InitAll == PinTuring /\ PinCounter /\ PinPointer /\ PinLoop /\ Init

\* The automaton a program constructs, and the program.
InitLoopAlone ==
    /\ PinWrapper /\ PinPointer /\ PinCounter /\ PinTuring
    /\ \E p \in Programs : program = p /\ mode = ProgramStart(p)
    /\ Init

InitCounterAlone == PinTuring /\ PinCounter /\ PinAutomaton /\ PinWrapper /\ PinPointer /\ PinLoop /\ Init

\* The counter's automaton constructed with any mode, driven by any caller.
InitCounterAny ==
    /\ PinAutomaton /\ PinWrapper /\ PinPointer /\ PinLoop /\ PinTuring
    /\ cpc = "free"
    /\ Init

\* The Automaton of automaton.rs under every call sequence.
Spec == InitAutomatonAlone /\ [][NextAutomaton]_vars

\* The same, with callers that also pass next_with_result the closure that
\* next builds.
NextAutomatonUnit == NextAutomaton \/ next_with_unit_result

SpecUnit == InitAutomatonAlone /\ [][NextAutomatonUnit]_vars

\* The wrapper layer of mode_wrapper.rs and transition.rs under every call
\* sequence of its holder.
SpecWrapper == InitWrapperAlone /\ [][NextWrapper]_vars

\* Both layers side by side.
SpecAll == InitAll /\ [][NextAutomaton \/ NextWrapper]_vars

\* The Automaton with pointer storage under every call sequence.
SpecPointer == InitPointerAlone /\ [][NextPointer]_vars

\* The loops of the documentation: a single thread that runs whenever it can.
SpecLoop == InitLoopAlone /\ [][NextLoop]_vars /\ WF_vars(NextLoop)

\* main of examples/counter.rs, likewise.
SpecCounter == InitCounterAlone /\ [][NextCounter]_vars /\ WF_vars(NextCounter)

\* main of examples/turing.rs, from the tape of main and its neighbours.
InitTuringAlone ==
    /\ PinAutomaton /\ PinWrapper /\ PinPointer /\ PinLoop /\ PinCounter
    /\ tpc = "loop"
    /\ Init

\* The machine of examples/turing.rs constructed with any State, stepped by
\* any caller.
InitTuringAny ==
    /\ PinAutomaton /\ PinWrapper /\ PinPointer /\ PinLoop /\ PinCounter
    /\ tpc = "free"
    /\ Init

SpecTuringAny == InitTuringAny /\ [][NextTuringAny]_vars

SpecTuring == InitTuringAlone /\ [][NextTuring]_vars /\ WF_vars(NextTuring)

\* The modes of examples/counter.rs under every sequence of update and
\* transition, from every mode a caller can construct.
SpecCounterAny == InitCounterAny /\ [][NextCounterAny]_vars

\* main of the example of lib.rs, of examples/enum.rs and of
\* examples/activity.rs, each a single thread that runs whenever it can.
InitActivityAlone ==
    /\ PinAutomaton /\ PinWrapper /\ PinPointer /\ PinLoop /\ PinCounter /\ PinTuring
    /\ Init

SpecActivity == InitActivityAlone /\ [][NextActivity]_vars /\ WF_vars(NextActivity)


\* ------------------------------------------------------------------ claims

NextOps == {"next", "next_with_result"}

\* C1: the slot holds exactly one mode whenever no call of next or
\* next_with_result is executing its transition function (after construction,
\* before and after every such call), and it is empty only while the
\* transition function of an in-flight call is executing.
C1_ExactlyOneMode ==
    /\ pc = "idle" => Len(mode) = 1
    /\ IsNone(mode) => pc = "in_fn"

\* C2: next_with_result moves the mode that was current at call time into the
\* transition function (the slot is empty meanwhile), installs the first
\* component of the returned pair and returns the second; when the result is
\* returned the successor is already in the slot and the function holds nothing.
C2_NextWithResult ==
    /\ pc = "in_fn" => IsNone(mode) /\ held = call.pre
    /\ (call.op \in NextOps /\ call.outcome = "returned") =>
          /\ pc = "idle"
          /\ mode = Some(TransitionFn(call.fn, Unwrap(call.pre))[1])
          /\ result = Some(TransitionFn(call.fn, Unwrap(call.pre))[2])
          /\ IsNone(held)

C2_Witness ==
    /\ call.op = "next_with_result"
    /\ call.outcome = "returned"
    /\ mode # call.pre
    /\ result = call.pre
    /\ observed = None

\* C3: after any run of consecutive calls of next with a transition function
\* that returns the mode it was given, borrow_mode yields the Base state it
\* yielded before the run.
C3_StayIdempotent ==
    (IsSome(stayBase) /\ pc = "idle") =>
        /\ IsSome(mode)
        /\ Borrow(Unwrap(mode)) = Unwrap(stayBase).base

C3_Witness ==
    /\ IsSome(stayBase)
    /\ Unwrap(stayBase).calls = MaxStay
    /\ pc = "idle"
    /\ Unwrap(mode) # DefaultMode

\* C4: a call of next or next_with_result that finds the slot empty panics
\* with the message of the swap: it invokes no transition function, installs
\* no mode, is not left running and returns nothing.
C4_ReentrancyRejected ==
    (call.op \in NextOps /\ IsNone(call.pre)) =>
        /\ call.outcome = "panicked"
        /\ call.err = "Cannot swap out current Mode while another swap is taking place!"
        /\ ~call.invoked
        /\ IsNone(mode)
        /\ IsNone(result)
        /\ pc = "idle"

C4_Witness ==
    /\ call.op = "next"
    /\ call.reentrant
    /\ IsNone(call.pre)
    /\ call.outcome = "panicked"

\* C5: a borrow (borrow_mode, borrow_mode_mut and the trait implementations
\* built on them) panics when the slot is empty and otherwise returns a
\* reference to the mode in the slot viewed as Base; no reference is handed
\* out while a mode is taken out for a transition.
C5_Borrow ==
    /\ (call.op \in BorrowOps \cup BorrowMutOps /\ IsNone(call.pre)) =>
          /\ call.outcome = "panicked"
          /\ call.err = "Cannot borrow current Mode because another swap is already taking place!"
          /\ IsNone(observed)
    /\ (call.op \in BorrowOps \cup BorrowMutOps /\ IsSome(call.pre)) =>
          /\ call.outcome = "returned"
          /\ IsSome(mode)
          /\ observed = Some(Borrow(Unwrap(mode)))
    /\ IsSome(held) => IsNone(observed)

C5_Witness ==
    /\ call.op \in BorrowOps \cup BorrowMutOps
    /\ call.reentrant
    /\ call.outcome = "panicked"

\* The live owners of the automaton's mode and of the wrapper layer's mode.
Owners == Len(mode) + Len(held)

WrapperOwners ==
    Len(wrapper.mode) + Len(inflight)
        + (IF IsSome(returned) THEN Len(Unwrap(returned).mode) ELSE 0)

\* C6: across every transition of the automaton and of the wrapper layer the
\* mode (and with it every resource it holds) has at most one live owner among
\* the slot, the executing transition, the old wrapper and the new wrapper.
C6_OwnershipTransfer == Owners <= 1 /\ WrapperOwners <= 1

C6_Witness ==
    /\ pc = "in_fn" /\ Owners = 1
    /\ wpc = "invoking" /\ WrapperOwners = 1
    /\ Unwrap(inflight).hours_worked > 0

\* C7: the mode an Automaton<F> holds, or has handed to a transition function,
\* always belongs to family F: no transition to a mode of another family is
\* ever installed.
C7_FamilyFencing ==
    /\ IsSome(mode) => Unwrap(mode).family = F
    /\ IsSome(held) => Unwrap(held).family = F

C7_Witness ==
    /\ call.op \in NextOps
    /\ call.outcome = "returned"
    /\ mode # call.pre
    /\ Unwrap(mode).family = F

\* C8: perform_transitions calls get_transition once and, exactly when that
\* yields a Transition, invokes it once, on the mode that produced it; the
\* invocation consumes the Transition and the mode.
C8_OneShot ==
    /\ (wcall.op = "perform_transitions" /\ wcall.outcome # "panicked") =>
          /\ wcall.gets = 1
          /\ wcall.invokes = Len(wcall.got)
          /\ wcall.got = GetTransition(Unwrap(wcall.pre)).transition
    /\ wpc = "invoking" =>
          /\ transition = wcall.got
          /\ inflight = Some(GetTransition(Unwrap(wcall.pre)).mode)
          /\ IsNone(wrapper.mode)
    /\ wpc = "idle" => IsNone(transition) /\ IsNone(inflight)
    /\ wcall.outcome = "Some" => IsNone(wrapper.mode)

C8_Witness ==
    /\ wcall.outcome = "Some"
    /\ wcall.invokes = 1
    /\ IsNone(transition)

\* C9: on a transition perform_transitions hands back a new wrapper owning the
\* mode the Transition produced from the old wrapper's mode, borrow_mode on it
\* yields that mode as Base, and the result is Some exactly when
\* get_transition returned a Transition.
C9_NewWrapper ==
    /\ (wcall.op = "perform_transitions" /\ wcall.outcome \in {"Some", "None"}) =>
          (IsSome(returned) <=> IsSome(GetTransition(Unwrap(wcall.pre)).transition))
    /\ wcall.outcome = "Some" =>
          returned = Some(NewWrapper(TransitionBody(Unwrap(wcall.got),
                              GetTransition(Unwrap(wcall.pre)).mode)))
    /\ (wcall.op = "borrow_mode_returned" /\ wcall.outcome = "returned") =>
          /\ IsSome(returned)
          /\ wobserved = Some(AsBase(Unwrap(Unwrap(returned).mode)))

C9_Witness ==
    /\ wcall.outcome = "Some"
    /\ IsSome(returned)
    /\ Unwrap(Unwrap(returned).mode).type # Unwrap(wcall.pre).type
    /\ Unwrap(Unwrap(returned).mode).hours_worked = LunchHour

\* C10: when get_transition returns None, perform_transitions returns None,
\* invokes nothing and leaves the wrapper owning the mode it owned.
C10_NoTransition ==
    (wcall.op = "perform_transitions" /\ wcall.outcome = "None") =>
        /\ IsNone(returned)
        /\ wcall.invokes = 0
        /\ IsSome(wrapper.mode)
        /\ wrapper.mode = wcall.pre
        /\ IsNone(inflight)
        /\ wpc = "idle"

C10_Witness ==
    /\ wcall.op = "perform_transitions"
    /\ wcall.outcome = "None"
    /\ Unwrap(wrapper.mode).hours_worked > 0

\* What the Base trait of the wrapper layer's modes can show of a mode: its
\* fields but the private queue of SomeMode.
BaseObservable(m) == [m EXCEPT !.queued_transition = None]

\* C11: when the Transition that is invoked returns the mode it was given,
\* the wrapper handed back owns that very mode, as get_transition left it,
\* with the Base-observable state the mode had before the call.
C11_ReturnInput ==
    (wcall.outcome = "Some" /\ wcall.got = Some("to_previous")) =>
        /\ IsSome(returned)
        /\ Unwrap(returned).mode = Some(GetTransition(Unwrap(wcall.pre)).mode)
        /\ BaseObservable(AsBase(Unwrap(Unwrap(returned).mode)))
              = BaseObservable(AsBase(Unwrap(wcall.pre)))

C11_Witness ==
    /\ wcall.outcome = "Some"
    /\ wcall.got = Some("to_previous")
    /\ Unwrap(Unwrap(returned).mode).type = "SomeMode"
    /\ IsNone(wrapper.mode)

\* C12: the pointer adapters forward swap to the pointee's own swap: a call
\* of next on an automaton with pointer storage returns, having run the
\* pointee's swap exactly once on the same input, and leaves in the slot and
\* on the heap exactly what the pointee's swap returned.
C12_AdapterForwards ==
    pcall.op = "next" =>
        LET out == PointeeSwap(Unwrap(pcall.pre), pcall.input, pcall.preHeap,
                               pcall.alloc)
        IN  /\ pcall.outcome = "returned"
            /\ pcall.swaps = 1
            /\ pcall.received = pcall.input
            /\ pmode = Some(out.mode)
            /\ heap = out.heap

C12_Witness ==
    /\ pcall.op = "next"
    /\ pcall.outcome = "returned"
    /\ pcall.input = "context"
    /\ Unwrap(pmode).kind = "Arc"
    /\ pmode # pcall.pre

\* C13: with pointer storage, when the current mode elects to stay, the
\* automaton holds after next the very pointer it held before (same kind,
\* same address), nothing was allocated or freed, and the pointee is
\* untouched.
C13_StayKeepsPointer ==
    (/\ pcall.op = "next"
     /\ pcall.outcome = "returned"
     /\ ~ElectsToSwap(Pointee(Unwrap(pcall.pre), pcall.preHeap))) =>
        /\ pmode = pcall.pre
        /\ heap = pcall.preHeap

C13_Witness ==
    /\ pcall.op = "next"
    /\ pcall.outcome = "returned"
    /\ ~ElectsToSwap(Pointee(Unwrap(pcall.pre), pcall.preHeap))
    /\ Pointee(Unwrap(pmode), heap).type = "Eating"
    /\ Pointee(Unwrap(pmode), heap).calories_consumed > 0

\* C14: Automaton::new(), Automaton::default() and Family::automaton() return
\* the automaton that with_mode(Default::default()) returns: the slot holds
\* the default mode and every other field is as with_mode leaves it, so no
\* later call can tell them apart.
C14_NewIsWithDefault ==
    call.op \in NewOps =>
        /\ mode = WithMode(DefaultMode)
        /\ constructed = Some(DefaultMode)
        /\ pc = "idle" /\ held = None
        /\ result = None /\ observed = None /\ stayBase = None
        /\ call = [CallRecord("with_mode", NoClosure, None, FALSE, "returned", "")
                       EXCEPT !.op = call.op]

C14_Witness ==
    /\ call.op = "automaton"
    /\ mode = Some(DefaultMode)
    /\ constructed = mode

\* C15: as long as no next and no write through a &mut has followed the
\* construction with_mode(m) (or automaton_with_mode(m)), the slot is full and
\* holds m, and a borrow returns exactly m viewed as Base.
C15_ConstructThenBorrow ==
    IsSome(constructed) =>
        /\ mode = constructed
        /\ (call.op \in BorrowOps \cup BorrowMutOps /\ call.outcome = "returned")
              => observed = Some(Borrow(Unwrap(constructed)))

C15_Witness ==
    /\ IsSome(constructed)
    /\ Unwrap(constructed) # DefaultMode
    /\ call.op = "borrow_mode"
    /\ call.outcome = "returned"
    /\ observed = Some(Borrow(Unwrap(constructed)))

\* C16: an installed mode stays current until a next supersedes it: a
\* borrow_mode (Deref, AsRef, Debug, Display) leaves the slot as it is; a
\* borrow_mode_mut (DerefMut, AsMut) leaves it full, holding the same mode
\* with at most the write made through the reference; the slot is emptied
\* only by next / next_with_result, and holds another mode only after one of
\* them, a write through a &mut, or the construction of a new automaton.
C16_SlotFrame ==
    [][/\ call'.op \in BorrowOps => mode' = mode
       /\ call'.op \in BorrowMutOps =>
            /\ Len(mode') = Len(mode)
            /\ IsSome(mode) =>
                 \E w \in Writes : mode' = Some(BaseWrite(w, Unwrap(mode)))
       /\ (IsSome(mode) /\ IsNone(mode')) => call'.op \in NextOps
       /\ mode' # mode =>
            call'.op \in NextOps \cup BorrowMutOps \cup WithModeOps \cup NewOps]_vars

C16_Witness ==
    /\ call.op = "borrow_mode_mut"
    /\ call.outcome = "returned"
    /\ IsSome(mode)
    /\ mode # call.pre
    /\ observed = Some(Borrow(Unwrap(mode)))

\* C17: a call of next / next_with_result is all or nothing: it is running,
\* has returned or has panicked; when it has returned, the slot is full, the
\* result is there and nothing is left in flight; when it has panicked, no
\* result was returned.  No call returns normally leaving the slot empty.
C17_AllOrNothing ==
    call.op \in NextOps =>
        /\ call.outcome \in {"running", "returned", "panicked"}
        /\ call.outcome = "running" => pc = "in_fn"
        /\ call.outcome = "returned" =>
             /\ IsSome(mode) /\ IsSome(result)
             /\ pc = "idle" /\ held = None
        /\ call.outcome = "panicked" => result = None

C17_Witness ==
    /\ call.op = "next"
    /\ call.invoked
    /\ call.outcome = "panicked"
    /\ result = None
    /\ pc = "idle"

\* C19: Deref, DerefMut, AsRef and AsMut behave as borrow_mode and
\* borrow_mode_mut do in the state they are called in: on a full slot they
\* return the reference to the current mode viewed as Base, on an empty slot
\* they panic with the message of borrow_mode.
C19_TraitsForward ==
    call.op \in TraitBorrowOps \cup TraitBorrowMutOps =>
        IF IsNone(call.pre)
            THEN call.outcome = "panicked" /\ call.err = ERR_BORROW
            ELSE /\ call.outcome = "returned"
                 /\ IsSome(mode)
                 /\ observed = Some(Borrow(Unwrap(mode)))

C19_Witness ==
    /\ call.op = "deref"
    /\ call.outcome = "returned"
    /\ observed = Some(Borrow(Unwrap(mode)))
    /\ Unwrap(mode) # DefaultMode

\* C18: every call of next applies the transition function exactly once: in
\* the counting loop the count equals the number of calls made whenever no
\* call is in flight, and the loop ends after exactly `target` calls (10 for
\* the documented loop) with the count at the target; the state loop started
\* in A ends in C after exactly two calls (from B after one, from C after
\* none), and C maps to itself.  Both loops end.
C18_OncePerCall ==
    /\ [](/\ (program.kind = "count" /\ pc = "idle") =>
                mode = Some([DefaultMode EXCEPT !.count = calls])
          /\ (program.kind = "count" /\ lpc = "done") => calls = program.target
          /\ (program.kind = "state" /\ lpc = "done") =>
                /\ Unwrap(mode).name = "C"
                /\ calls = (CASE program.start = "A" -> 2
                              [] program.start = "B" -> 1
                              [] OTHER               -> 0)
                /\ ApplyFn("state_next", Unwrap(mode)) = Unwrap(mode))
    /\ <>(lpc = "done")

C18_Witness ==
    /\ program = CountProgram(LoopTarget)
    /\ lpc = "done"
    /\ calls = LoopTarget
    /\ Unwrap(mode).count = LoopTarget

\* C20: the first phase of the counter: each of the first three rounds
\* (update, then transition) increments the counter; after the first and the
\* second round the mode is still UpMode with target 3 and transition
\* reported false; after the third, at counter 3, the mode is
\* DownMode { counter: 3, target: 2 } and transition reported true.
C20_FirstPhase ==
    /\ (rounds < InitialTarget /\ cpc \in {"test", "update"}) =>
            cmode = Some(UpMode(rounds, InitialTarget))
    /\ (rounds < InitialTarget /\ cpc = "transition") =>
            cmode = Some(UpMode(rounds + 1, InitialTarget))
    /\ (rounds \in 1..(InitialTarget - 1) /\ cpc = "test") => creport = Some(FALSE)
    /\ (rounds = InitialTarget /\ cpc = "test") =>
            /\ cmode = Some(DownMode(InitialTarget, (InitialTarget \div 2) + 1))
            /\ Unwrap(cmode).target = 2
            /\ creport = Some(TRUE)

C20_Witness ==
    /\ rounds = InitialTarget
    /\ cpc = "test"
    /\ cmode = Some(DownMode(3, 2))
    /\ creport = Some(TRUE)

\* C21: main of the counter, started at UpMode { counter: 0, target: 3 },
\* eventually ends with FinishedMode { result: 10 } active and prints 10;
\* has_result is false in every state before FinishedMode { result: 10 } is
\* installed, and the loop leaves only with that mode.
C21_CounterFinishes ==
    /\ [](/\ HasResult(Unwrap(cmode)) => cmode = Some(FinishedMode(GOAL))
          /\ cpc \in {"finish", "exit"} => cmode = Some(FinishedMode(GOAL))
          /\ cpc = "exit" => cout = Some(GOAL)
          /\ cpc # "exit" => cout = None)
    /\ <>(cpc = "exit" /\ cout = Some(10))

C21_Witness ==
    /\ cpc = "exit"
    /\ cmode = Some(FinishedMode(10))
    /\ cout = Some(10)
    /\ creport = Some(TRUE)

C29_ReportIffReplaced ==
    cop = "transition" =>
        /\ creport = Some(TRUE) <=> Unwrap(cmode).type # Unwrap(cprev).type
        /\ creport = Some(FALSE) <=> cmode = cprev
        /\ <<Unwrap(cprev).type, Unwrap(cmode).type>> \in
              {<<"UpMode", "UpMode">>, <<"DownMode", "DownMode">>,
               <<"UpMode", "DownMode">>, <<"DownMode", "UpMode">>,
               <<"DownMode", "FinishedMode">>}

C29_Witness ==
    /\ cop = "transition"
    /\ creport = Some(TRUE)
    /\ Unwrap(cprev).type = "DownMode"
    /\ Unwrap(cmode).type = "UpMode"
    /\ rounds > InitialTarget

\* C30: every transition of the counter's modes carries the counter over: a
\* successor of another type has the predecessor's counter (FinishedMode has
\* it as its result), with target counter / 2 + 1 when it is a DownMode and
\* counter * 2 when it is an UpMode; a mode that stays is unchanged; and a
\* DownMode whose counter is the goal 10 finishes even when the counter is
\* its target too.
C30_CounterCarriedOver ==
    cop = "transition" =>
        LET p == Unwrap(cprev)
            n == Unwrap(cmode)
        IN  /\ n.type = p.type => n = p
            /\ (n.type # p.type /\ n.type = "DownMode") =>
                  n = DownMode(p.counter, (p.counter \div 2) + 1)
            /\ (n.type # p.type /\ n.type = "UpMode") =>
                  n = UpMode(p.counter, p.counter * 2)
            /\ (n.type # p.type /\ n.type = "FinishedMode") =>
                  n = FinishedMode(p.counter)
            /\ (p.type = "DownMode" /\ p.counter = GOAL) => n = FinishedMode(GOAL)

C30_Witness ==
    /\ cop = "transition"
    /\ cprev = Some(DownMode(10, 10))
    /\ cmode = Some(FinishedMode(10))

\* C23: the tape machine started in state A with the tape 0b111 << 8 halts:
\* the loop of main ends, within the step budget (after 28 calls of
\* next_with_output for that tape), in state H; the call that reaches H is the
\* one that returns false, and every call before it returned true.
C23_TuringHalts ==
    /\ [](/\ tpc = "done" =>
                /\ Unwrap(tmode).name = "H"
                /\ tout = Some(FALSE)
                /\ tsteps < MaxSteps
                /\ tones = TapeOnes => tsteps = 28
          /\ (tpc = "loop" /\ tsteps > 0) =>
                /\ Unwrap(tmode).name # "H"
                /\ tout = Some(TRUE))
    /\ <>(tpc = "done")

C23_Witness ==
    /\ tones = 3
    /\ tpc = "done"
    /\ Unwrap(tmode).name = "H"
    /\ tout = Some(FALSE)
    /\ tsteps = 28

C28_QueuedPerformedLater ==
    /\ [](/\ (/\ wcall.op = "perform_transitions"
              /\ wcall.outcome # "panicked"
              /\ Unwrap(wcall.pre).type = "SomeMode") =>
                LET pre == Unwrap(wcall.pre)
                IN  /\ wcall.got = (IF pre.ready THEN pre.queued_transition ELSE None)
                    /\ wcall.outcome = "None" => wrapper.mode = wcall.pre
                    /\ wcall.outcome = "running" =>
                          inflight = Some([pre EXCEPT !.queued_transition = None])
          /\ (IsSome(returned) /\ Unwrap(Unwrap(returned).mode).type = "SomeMode") =>
                /\ IsNone(Unwrap(Unwrap(returned).mode).queued_transition)
                /\ IsNone(GetTransition(Unwrap(Unwrap(returned).mode)).transition))
    /\ [][(/\ wcall'.op = "borrow_mode_mut"
           /\ wrapper' # wrapper
           /\ Unwrap(wrapper.mode).type = "SomeMode") =>
              /\ IsSome(wrapper'.mode)
              /\ Unwrap(wrapper'.mode).type = "SomeMode"
              /\ wcall'.invokes = 0
              /\ returned' = returned
              /\ IsNone(transition') /\ IsNone(inflight')
              /\ wpc' = "idle"]_vars

C28_Witness ==
    /\ wcall.op = "perform_transitions"
    /\ wcall.outcome = "Some"
    /\ wcall.got = Some("to_previous")
    /\ Unwrap(wcall.pre).queued_transition = Some("to_previous")
    /\ Unwrap(Unwrap(returned).mode).type = "SomeMode"
    /\ IsNone(Unwrap(Unwrap(returned).mode).queued_transition)

\* C24: the Activity machine written with get_transition and
\* perform_transitions (the example of lib.rs) and the one written with swap
\* (examples/enum.rs), both started at Working { hours_worked: 0 } and driven
\* by the loop of update followed by the transition step, have the same
\* active mode with the same hours_worked, calories_consumed and
\* hours_rested after every update and after every transition step of the 82
\* rounds, and both loops end.
C24_DeferredIsSwap ==
    /\ [](/\ IsSome(deferred.mode) /\ IsSome(inline)
          /\ Unwrap(deferred.mode).type = Unwrap(inline).type
          /\ Unwrap(deferred.mode).hours_worked = Unwrap(inline).hours_worked
          /\ Unwrap(deferred.mode).calories_consumed = Unwrap(inline).calories_consumed
          /\ Unwrap(deferred.mode).hours_rested = Unwrap(inline).hours_rested)
    /\ <>(apc = "done" /\ age = LastAge)

C24_Witness ==
    /\ apc = "test"
    /\ age > FirstAge + 4 + 5
    /\ Unwrap(deferred.mode) = Working(4)
    /\ Unwrap(inline) = Working(4)

\* C25: the Activity machine with boxed storage (examples/activity.rs) and
\* the one with inline storage (examples/enum.rs) show the same Base state
\* (the pointee of the Box is the mode in the inline slot) after every update
\* and after every transition of their main loops, which end after 82
\* rounds.
C25_StorageInterchangeable ==
    /\ [](/\ IsSome(boxed) /\ IsSome(inline)
          /\ Unwrap(boxed).kind = "Box"
          /\ IsSome(bheap[Unwrap(boxed).addr])
          /\ Pointee(Unwrap(boxed), bheap) = Unwrap(inline)
          /\ Cardinality({a \in Addrs : IsSome(bheap[a])}) = 1
          /\ apc = "done" => age - FirstAge = 82)
    /\ <>(apc = "done")

C25_Witness ==
    /\ apc = "done"
    /\ age - FirstAge = 82
    /\ Pointee(Unwrap(boxed), bheap) = Sleeping(2)
    /\ Unwrap(inline) = Sleeping(2)

\* Bit i of a tape.
BitAt(tape, i) == (tape \div (2 ^ i)) % 2

\* The rows of the table: state name, bit under the head, next state, and
\* the bit written and the direction of the shift ("none" without operation).
TableRows ==
    {<<"A", 0, "H", "none", "none">>, <<"A", 1, "B", 0, "Right">>,
     <<"B", 0, "C", 0, "Right">>,     <<"B", 1, "B", 1, "Right">>,
     <<"C", 0, "D", 1, "Left">>,      <<"C", 1, "C", 1, "Right">>,
     <<"D", 0, "E", 0, "Left">>,      <<"D", 1, "D", 1, "Left">>,
     <<"E", 0, "A", 1, "Right">>,     <<"E", 1, "E", 1, "Left">>,
     <<"H", 0, "H", "none", "none">>, <<"H", 1, "H", "none", "none">>}

\* C31: every step of the tape machine follows the row of the table for its
\* state name and the bit at position 8: the name becomes the row's next
\* state; without an operation the tape is unchanged; with one, the head bit
\* is written first and the 16-bit tape shifted afterwards, so that after a
\* right shift the written bit is at position 7, after a left shift at
\* position 9, every other bit has moved by one position, and a 0 has come in
\* at the far end.
C31_TableStep ==
    [][tout' # None =>
        \E r \in TableRows :
            LET m == Unwrap(tmode)
                n == Unwrap(tmode')
            IN  /\ r[1] = m.name
                /\ r[2] = BitAt(m.tape, HEAD)
                /\ n.name = r[3]
                /\ r[5] = "none" => n.tape = m.tape
                /\ r[5] = "Right" =>
                      \A i \in 0..(TapeBits - 1) :
                          BitAt(n.tape, i) =
                              (IF i = TapeBits - 1 THEN 0
                               ELSE IF i + 1 = HEAD THEN r[4]
                               ELSE BitAt(m.tape, i + 1))
                /\ r[5] = "Left" =>
                      \A i \in 0..(TapeBits - 1) :
                          BitAt(n.tape, i) =
                              (IF i = 0 THEN 0
                               ELSE IF i - 1 = HEAD THEN r[4]
                               ELSE BitAt(m.tape, i - 1))
                /\ n.tape \in 0..((2 ^ TapeBits) - 1)]_vars

C31_Witness ==
    /\ tpc = "free"
    /\ tout = Some(TRUE)
    /\ Unwrap(tmode).name = "D"
    /\ BitAt(Unwrap(tmode).tape, HEAD + 1) = 1
    /\ BitAt(Unwrap(tmode).tape, HEAD) = 1
    /\ BitAt(Unwrap(tmode).tape, 0) = 0

\* C32: next_with_output returns false exactly on the steps taken in state A
\* with a 0 under the head or in state H, and true on every other step; a
\* step taken in state H leaves the name and the tape as they are.
C32_HaltIsAbsorbing ==
    [][tout' # None =>
        LET m == Unwrap(tmode)
            halts == m.name = "H" \/ (m.name = "A" /\ BitAt(m.tape, HEAD) = 0)
        IN  /\ tout' = Some(~halts)
            /\ halts => Unwrap(tmode').name = "H" /\ Unwrap(tmode').tape = m.tape
            /\ m.name = "H" => tmode' = tmode]_vars

C32_Witness ==
    /\ tpc = "free"
    /\ tout = Some(FALSE)
    /\ Unwrap(tmode).name = "H"
    /\ BitAt(Unwrap(tmode).tape, HEAD) = 1

\* C33: in the run of main from the tape 0b111 << 8 in state A no shift
\* loses a 1: a left shift finds bit 15 clear and a right shift finds bit 0
\* clear, so every step that changes the tape doubles or halves, exactly,
\* the tape with its head bit written; and the run halts with the tape
\* 0b0000_1110_1110_0000.
C33_NoBitLost ==
    /\ [][(tones = TapeOnes /\ tmode' # tmode) =>
            LET t == Unwrap(tmode).tape
                n == Unwrap(tmode').tape
                cleared == t - (BitAt(t, HEAD) * (2 ^ HEAD))
            IN  \/ n = t
                \/ \E p \in {cleared, cleared + (2 ^ HEAD)} :
                      \/ n = 2 * p /\ BitAt(p, TapeBits - 1) = 0
                      \/ p = 2 * n /\ BitAt(p, 0) = 0]_vars
    /\ []((tones = TapeOnes /\ tpc = "done") =>
            /\ Unwrap(tmode).tape = 3808
            /\ \A i \in 0..(TapeBits - 1) :
                  BitAt(Unwrap(tmode).tape, i) =
                      (IF i \in {5, 6, 7, 9, 10, 11} THEN 1 ELSE 0))
    /\ <>(tpc = "done")

C33_Witness ==
    /\ tones = TapeOnes
    /\ tpc = "done"
    /\ Unwrap(tmode).tape = (14 * 256) + (14 * 16)
    /\ Unwrap(tmode).name = "H"

\* The changes of mode of the Activity machine, in the order of its day.
ActivitySwaps ==
    {<<Working(4), Eating(4, 0)>>,   <<Eating(4, 500), Working(4)>>,
     <<Working(8), Eating(8, 0)>>,   <<Eating(8, 500), Sleeping(0)>>,
     <<Sleeping(8), Eating(0, 0)>>,  <<Eating(0, 500), Working(0)>>}

\* C34: in the Activity machine driven by update followed by the transition
\* step (inline and boxed alike) a transition step either leaves the mode as
\* it is or makes the next change of the cycle Working 4 -> Eating ->
\* Working (from 4 to 8) -> Eating -> Sleeping (to 8) -> Eating -> Working 0:
\* Sleeping is entered only from Eating with hours_worked = 8, Working
\* entered again at 4 hours is updated to 5 before its next transition step
\* and stays; an update changes no mode type; and always hours_worked <= 8,
\* calories_consumed <= 500 and hours_rested <= 8.
C34_ActivityCycle ==
    /\ [][apc = "transition" =>
            /\ \/ inline' = inline
               \/ <<Unwrap(inline), Unwrap(inline')>> \in ActivitySwaps
            /\ \/ Pointee(Unwrap(boxed'), bheap') = Pointee(Unwrap(boxed), bheap)
               \/ <<Pointee(Unwrap(boxed), bheap),
                    Pointee(Unwrap(boxed'), bheap')>> \in ActivitySwaps
            /\ inline' # inline <=>
                  \E p \in ActivitySwaps : p[1] = Unwrap(inline)]_vars
    /\ [][apc = "update" =>
            /\ Unwrap(inline').type = Unwrap(inline).type
            /\ inline = Some(Working(4)) => inline' = Some(Working(5))
            /\ inline' # inline]_vars
    /\ [](/\ Unwrap(inline).hours_worked <= 8
          /\ Unwrap(inline).calories_consumed <= 500
          /\ Unwrap(inline).hours_rested <= 8
          /\ Pointee(Unwrap(boxed), bheap).hours_worked <= 8
          /\ Pointee(Unwrap(boxed), bheap).calories_consumed <= 500
          /\ Pointee(Unwrap(boxed), bheap).hours_rested <= 8
          /\ (apc = "transition" /\ Unwrap(inline).type = "Working") =>
                Unwrap(inline).hours_worked \in 1..8)
    /\ <>(age > FirstAge /\ apc = "test" /\ Unwrap(inline) = Working(0))

C34_Witness ==
    /\ age = FirstAge + 31
    /\ apc = "test"
    /\ Unwrap(inline) = Working(0)
    /\ Pointee(Unwrap(boxed), bheap) = Working(0)

\* C35: a call of next with transition function f and a call of
\* next_with_result with |m| (f(m), ()) are the same call: either one panics
\* with the message of the swap, without calling f, exactly when it finds the
\* slot empty; otherwise f is called on the mode taken out of the slot, and
\* when it has returned the slot holds f of that mode, one application of f,
\* the result is the unit value and nothing is in flight.
C35_NextIsUnitResult ==
    (call.op = "next" \/ (call.op = "next_with_result" /\ call.fn.kind = "unit")) =>
        /\ call.fn = Closure("unit", call.fn.fn)
        /\ IsNone(call.pre) <=> (call.outcome = "panicked" /\ ~call.invoked)
        /\ IsNone(call.pre) => call.err = ERR_SWAP /\ IsNone(mode) /\ IsNone(result)
        /\ call.outcome = "running" =>
              /\ call.invoked
              /\ pc = "in_fn" /\ held = call.pre /\ IsNone(mode) /\ IsNone(result)
        /\ call.outcome = "returned" =>
              /\ call.invoked
              /\ mode = Some(ApplyFn(call.fn.fn, Unwrap(call.pre)))
              /\ result = Some(Unit)
              /\ pc = "idle" /\ IsNone(held)

C35_Witness ==
    /\ call.op = "next_with_result"
    /\ call.fn = Closure("unit", "count_up")
    /\ call.outcome = "returned"
    /\ result = Some(Unit)
    /\ Unwrap(mode).count = Unwrap(call.pre).count + 1
====
